---- MODULE Spec2Model ----
(***************************************************************************)
(* Trajectory computation engine of the optimiser visualiser               *)
(* (src/scripts/optimisers.js) and the controllers that drive it.          *)
(*                                                                         *)
(* JavaScript numbers are IEEE-754 doubles.  They are modelled here as     *)
(* decimal floating-point numbers: a finite number is a signed mantissa of *)
(* exactly Precision digits and a decimal exponent in MinExp..MaxExp, and  *)
(* every operation rounds its exact result to nearest (ties to even),      *)
(* overflows to an infinity and underflows to zero.  NaN and the two       *)
(* infinities behave as in IEEE-754.  The sign of zero is not modelled     *)
(* (-0 === 0 in JavaScript and no division by zero is reachable with a     *)
(* signed zero divisor in the engine).                                     *)
(***************************************************************************)
EXTENDS Integers, Sequences, FiniteSets, TLC

(***************************************************************************)
(* Bounds of the number model.                                             *)
(***************************************************************************)
Precision == 3
MaxExp == 308
MaxNegExp == 324

\* The smallest exponent of a non-zero number (5e-324 is the least double).
MinExp == 0 - MaxNegExp

(***************************************************************************)
(* Numbers.                                                                *)
(***************************************************************************)
NaN == [k |-> "nan", m |-> 0, e |-> 0]
PosInf == [k |-> "inf", m |-> 1, e |-> 0]
NegInf == [k |-> "inf", m |-> -1, e |-> 0]
Zero == [k |-> "fin", m |-> 0, e |-> 0]

RECURSIVE Pow10(_)
Pow10(n) == IF n <= 0 THEN 1 ELSE 10 * Pow10(n - 1)

RECURSIVE Digits(_)
Digits(n) == IF n < 10 THEN 1 ELSE 1 + Digits(n \div 10)

AbsInt(n) == IF n < 0 THEN -n ELSE n

SignInt(n) == IF n < 0 THEN -1 ELSE 1

Inf(s) == IF s < 0 THEN NegInf ELSE PosInf

\* The number s * n * 10^ex rounded to Precision digits, ties to even;
\* sticky says that the exact value is a little above n.
Round(s, n, ex, sticky) ==
    IF n = 0 THEN Zero
    ELSE LET nd == Digits(n)
             shift == nd - Precision
             q == n \div Pow10(shift)
             r == n % Pow10(shift)
             half == 5 * Pow10(shift - 1)
             up == shift > 0 /\ (r > half \/ (r = half /\ (sticky \/ q % 2 = 1)))
             q1 == IF shift > 0 THEN (IF up THEN q + 1 ELSE q)
                   ELSE n * Pow10(Precision - nd)
             carry == q1 = Pow10(Precision)
             mant == IF carry THEN Pow10(Precision - 1) ELSE q1
             ex1 == ex + nd - 1 + (IF carry THEN 1 ELSE 0)
         IN  IF ex1 > MaxExp THEN Inf(s)
             ELSE IF ex1 < MinExp THEN Zero
             ELSE [k |-> "fin", m |-> s * mant, e |-> ex1]

\* The decimal literal n * 10^ex.
Num(n, ex) == Round(SignInt(n), AbsInt(n), ex, FALSE)

IsZero(a) == a.k = "fin" /\ a.m = 0
SignOf(a) == IF a.m < 0 THEN -1 ELSE 1

\* Unary minus.
Neg(a) == IF a.k = "nan" THEN NaN ELSE [a EXCEPT !.m = -a.m]

\* Math.abs
Abs(a) == IF a.k = "nan" THEN NaN ELSE [a EXCEPT !.m = AbsInt(a.m)]

\* a + b
Add(a, b) ==
    IF a.k = "nan" \/ b.k = "nan" THEN NaN
    ELSE IF a.k = "inf" /\ b.k = "inf" THEN (IF a.m = b.m THEN a ELSE NaN)
    ELSE IF a.k = "inf" THEN a
    ELSE IF b.k = "inf" THEN b
    ELSE IF a.m = 0 THEN b
    ELSE IF b.m = 0 THEN a
    ELSE LET hi == IF a.e >= b.e THEN a ELSE b
             lo == IF a.e >= b.e THEN b ELSE a
             d == hi.e - lo.e
         IN  IF d > Precision + 1 THEN hi
             ELSE LET n == hi.m * Pow10(d) + lo.m
                  IN  Round(SignInt(n), AbsInt(n), lo.e - Precision + 1, FALSE)

\* a - b
Sub(a, b) == Add(a, Neg(b))

\* a * b
Mul(a, b) ==
    IF a.k = "nan" \/ b.k = "nan" THEN NaN
    ELSE IF a.k = "inf" \/ b.k = "inf"
         THEN (IF IsZero(a) \/ IsZero(b) THEN NaN ELSE Inf(SignOf(a) * SignOf(b)))
    ELSE Round(SignOf(a) * SignOf(b), AbsInt(a.m) * AbsInt(b.m),
               (a.e - Precision + 1) + (b.e - Precision + 1), FALSE)

\* a / b
Div(a, b) ==
    IF a.k = "nan" \/ b.k = "nan" THEN NaN
    ELSE IF a.k = "inf" THEN (IF b.k = "inf" THEN NaN ELSE Inf(SignOf(a) * SignOf(b)))
    ELSE IF b.k = "inf" THEN Zero
    ELSE IF b.m = 0 THEN (IF a.m = 0 THEN NaN ELSE Inf(SignOf(a)))
    ELSE LET n == AbsInt(a.m) * Pow10(Precision + 1)
             q == n \div AbsInt(b.m)
             r == n % AbsInt(b.m)
         IN  Round(SignOf(a) * SignOf(b), q, a.e - b.e - (Precision + 1), r # 0)

RECURSIVE ISqrt(_, _, _)
\* The largest r in lo..hi with r * r <= n.
ISqrt(n, lo, hi) ==
    IF lo >= hi THEN lo
    ELSE LET mid == (lo + hi + 1) \div 2
         IN  IF mid * mid <= n THEN ISqrt(n, mid, hi) ELSE ISqrt(n, lo, mid - 1)

\* Math.sqrt
Sqrt(a) ==
    IF a.k = "nan" THEN NaN
    ELSE IF a.k = "inf" THEN (IF a.m > 0 THEN PosInf ELSE NaN)
    ELSE IF a.m = 0 THEN Zero
    ELSE IF a.m < 0 THEN NaN
    ELSE LET ex == a.e - Precision + 1
             t == IF (ex - (Precision - 1)) % 2 = 0 THEN Precision - 1 ELSE Precision
             n == a.m * Pow10(t)
             r == ISqrt(n, Pow10(Precision - 1), Pow10(Precision) - 1)
             r1 == IF n > r * r + r THEN r + 1 ELSE r
         IN  Round(1, r1, (ex - t) \div 2, FALSE)

\* a < b
Less(a, b) ==
    IF a.k = "nan" \/ b.k = "nan" THEN FALSE
    ELSE IF a = b THEN FALSE
    ELSE IF a.k = "inf" THEN a.m < 0
    ELSE IF b.k = "inf" THEN b.m > 0
    ELSE IF a.m = 0 THEN b.m > 0
    ELSE IF b.m = 0 THEN a.m < 0
    ELSE IF SignOf(a) # SignOf(b) THEN a.m < 0
    ELSE IF a.m > 0 THEN (a.e < b.e \/ (a.e = b.e /\ a.m < b.m))
    ELSE (a.e > b.e \/ (a.e = b.e /\ a.m < b.m))

\* a > b
Greater(a, b) == Less(b, a)

RECURSIVE Pow(_, _)
\* a ** n for a positive integer n
Pow(a, n) == IF n <= 1 THEN a ELSE Mul(Pow(a, n - 1), a)

\* Number.isFinite
IsFinite(a) == a.k = "fin"

(***************************************************************************)
(* JavaScript values an evaluator can produce, and the outcome of calling  *)
(* compiled.evaluate(scope): a value, or a thrown error.                   *)
(***************************************************************************)
JsNumber(v) == [t |-> "number", n |-> v, s |-> "", b |-> FALSE]
JsString(str) == [t |-> "string", n |-> Zero, s |-> str, b |-> FALSE]
JsBoolean(bool) == [t |-> "boolean", n |-> Zero, s |-> "", b |-> bool]
JsUndefined == [t |-> "undefined", n |-> Zero, s |-> "", b |-> FALSE]
JsObject == [t |-> "object", n |-> Zero, s |-> "", b |-> FALSE]
Throws == [t |-> "throw", n |-> Zero, s |-> "", b |-> FALSE]
NoCall == [t |-> "nocall", n |-> Zero, s |-> "", b |-> FALSE]

\* A thrown error propagating out of a call, where a number was expected.
Raised == [k |-> "raised", m |-> 0, e |-> 0]
Threw(v) == v.k = "raised"

\* Number(value) for a value that is not of type number.
ToNumber(value) ==
    CASE value.t = "number" -> value.n
      [] value.t = "string" ->
            (CASE value.s = "" -> Zero
               [] value.s = "1" -> Num(1, 0)
               [] value.s = "2" -> Num(2, 0)
               [] value.s = "Infinity" -> PosInf
               [] OTHER -> NaN)
      [] value.t = "boolean" -> (IF value.b THEN Num(1, 0) ELSE Zero)
      [] OTHER -> NaN

\* evaluateNumber without its try/catch: the evaluator's error propagates.
evaluateNumberNoCatch(outcome) ==
    IF outcome.t = "throw" THEN Raised
    ELSE LET numeric == IF outcome.t = "number" THEN outcome.n ELSE ToNumber(outcome)
         IN  IF IsFinite(numeric) THEN numeric ELSE NaN

\* evaluateNumber that rejects every value that is not of type number.
evaluateNumberStrict(outcome) ==
    IF outcome.t = "throw" THEN NaN
    ELSE IF outcome.t = "number" /\ IsFinite(outcome.n) THEN outcome.n ELSE NaN

\* evaluateNumber(compiled, scope), given the outcome of compiled.evaluate(scope).
evaluateNumber(outcome) ==
    IF outcome.t = "throw" THEN NaN
    ELSE LET numeric == IF outcome.t = "number" THEN outcome.n ELSE ToNumber(outcome)
         IN  IF IsFinite(numeric) THEN numeric ELSE NaN

\* ensureValue that passes the value through.
ensureValueNoFallback(value, fallback) == value

ensureValue(value, fallback) == IF IsFinite(value) THEN value ELSE fallback

DEFAULT_NUM_STEPS == 20
EPSILON == Num(1, -9)
ADAM_EPSILON == Num(1, -8)

NoInverse == [ok |-> FALSE, xx |-> Zero, xy |-> Zero, yx |-> Zero, yy |-> Zero]

\* invert2x2 that only rejects a determinant that is exactly zero or non-finite.
invert2x2ExactZero(a, b, c, d) ==
    LET det == Sub(Mul(a, d), Mul(b, c))
    IN  IF ~IsFinite(det) \/ IsZero(det) THEN NoInverse
        ELSE LET invDet == Div(Num(1, 0), det)
             IN  [ok |-> TRUE,
                  xx |-> Mul(d, invDet),
                  xy |-> Mul(Neg(b), invDet),
                  yx |-> Mul(Neg(c), invDet),
                  yy |-> Mul(a, invDet)]

\* invert2x2 that returns the adjugate without scaling it by 1 / det.
invert2x2Unscaled(a, b, c, d) ==
    LET det == Sub(Mul(a, d), Mul(b, c))
    IN  IF ~IsFinite(det) \/ Less(Abs(det), EPSILON) THEN NoInverse
        ELSE [ok |-> TRUE, xx |-> d, xy |-> Neg(b), yx |-> Neg(c), yy |-> a]

invert2x2(a, b, c, d) ==
    LET det == Sub(Mul(a, d), Mul(b, c))
    IN  IF ~IsFinite(det) \/ Less(Abs(det), EPSILON) THEN NoInverse
        ELSE LET invDet == Div(Num(1, 0), det)
             IN  [ok |-> TRUE,
                  xx |-> Mul(d, invDet),
                  xy |-> Mul(Neg(b), invDet),
                  yx |-> Mul(Neg(c), invDet),
                  yy |-> Mul(a, invDet)]

(***************************************************************************)
(* Compiled expressions (the evaluators of an analysis).  The engine only  *)
(* calls compiled.evaluate(scope); what it computes is the environment's   *)
(* choice.  op = "oneof" is an evaluator whose outcome is any member of    *)
(* outs (a constant when outs is a singleton, an arbitrary and possibly    *)
(* impure evaluator otherwise); the other ops are expressions in x and y   *)
(* with coefficient c, evaluated with the arithmetic above.                *)
(***************************************************************************)
OneOf(S) == [op |-> "oneof", c |-> Zero, outs |-> S]
Const(v) == OneOf({JsNumber(v)})
Expr(op, c) == [op |-> op, c |-> c, outs |-> {}]

\* math.js returns a Complex object for the square root of a negative number.
SqrtValue(v) == IF IsFinite(v) /\ v.m < 0 THEN JsObject ELSE JsNumber(Sqrt(v))

\* The outcomes compiled.evaluate(scope) can have.
Evaluate(compiled, scope) ==
    CASE compiled.op = "oneof" -> compiled.outs
      [] compiled.op = "c*x" -> {JsNumber(Mul(compiled.c, scope.x))}
      [] compiled.op = "c*y" -> {JsNumber(Mul(compiled.c, scope.y))}
      [] compiled.op = "c*x^2" -> {JsNumber(Mul(compiled.c, Mul(scope.x, scope.x)))}
      [] compiled.op = "c*(x^2+y^2)" ->
            {JsNumber(Mul(compiled.c, Add(Mul(scope.x, scope.x), Mul(scope.y, scope.y))))}
      [] compiled.op = "c*(x+y)" -> {JsNumber(Mul(compiled.c, Add(scope.x, scope.y)))}
      [] compiled.op = "c*(x+y)^2" ->
            {JsNumber(Mul(compiled.c, Mul(Add(scope.x, scope.y), Add(scope.x, scope.y))))}
      [] compiled.op = "sqrt(x)" -> {SqrtValue(scope.x)}
      [] compiled.op = "c/sqrt(x)" ->
            {IF IsFinite(scope.x) /\ scope.x.m < 0 THEN JsObject
             ELSE JsNumber(Div(compiled.c, Sqrt(scope.x)))}
      [] compiled.op = "c/(x*sqrt(x))" ->
            {IF IsFinite(scope.x) /\ scope.x.m < 0 THEN JsObject
             ELSE JsNumber(Div(compiled.c, Mul(scope.x, Sqrt(scope.x))))}

(***************************************************************************)
(* State of a call of computeTrajectory1D / computeTrajectory2D.           *)
(***************************************************************************)
VARIABLES
    pc,        \* "idle", the branch whose loop is running, "returned" or "thrown"
    callee,    \* "1D" or "2D": which function is running ("none" before a call)
    analysis,  \* the analysis argument
    settings,  \* the settings argument
    numSteps,  \* const numSteps
    xs, ys, zs,\* the arrays (zs only in 2D); index 0 is element 1 of the sequence
    i,         \* the loop counter
    mx, my, vx, vy, \* Adam's moment accumulators
    result,    \* the value returned to the caller
    evals,     \* what the evaluators and invert2x2 called by the last step produced
    nCalls,    \* how often each kind of evaluator was called during this call
    fn0,       \* what the value evaluator produced at the initial point
    done,      \* the calls that have returned, in order, with their results
    controller \* the Univariate or Bivariate object whose handlers are running

vars == <<pc, callee, analysis, settings, numSteps, xs, ys, zs, i,
          mx, my, vx, vy, result, evals, nCalls, fn0, done, controller>>

One == Num(1, 0)

\* settings.numSteps is <<>> when the property is undefined, else <<n>>.
Nullish(v, default) == IF v = <<>> THEN default ELSE v[1]

\* new Array(len).fill(0)
NewArray(len) == [j \in 1..len |-> Zero]

\* arr[idx]
Get(arr, idx) == arr[idx + 1]

\* arr[idx] = v; assigning one past the end grows a JavaScript array.
Set(arr, idx, v) ==
    IF idx + 1 <= Len(arr) THEN [arr EXCEPT ![idx + 1] = v] ELSE Append(arr, v)

NoResult == [x |-> <<>>, y |-> <<>>, z |-> <<>>]
NoEval == [raw |-> NoCall, val |-> NaN]

\* No call of invert2x2.
NoInversion ==
    [called |-> FALSE, a |-> Zero, b |-> Zero, c |-> Zero, d |-> Zero, out |-> NoInverse]

\* One call of invert2x2: its arguments and what it returned.
Inversion(a, b, c, d) ==
    [called |-> TRUE, a |-> a, b |-> b, c |-> c, d |-> d, out |-> invert2x2(a, b, c, d)]

NoEvals == [fn |-> NoEval, gradX |-> NoEval, gradY |-> NoEval,
            hxx |-> NoEval, hxy |-> NoEval, hyx |-> NoEval, hyy |-> NoEval,
            inverse |-> NoInversion]
NoCalls == [fn |-> 0, gradient |-> 0, hessian |-> 0]

\* One call of evaluateNumber: the evaluator's outcome and the number returned.
Ev(raw) == [raw |-> raw, val |-> evaluateNumber(raw)]

\* The if / else-if chain of computeTrajectory1D that falls back to
\* Gradient Descent instead of throwing.
Branch1DDefault(optimiserType) ==
    IF optimiserType = "Newton" THEN "Newton" ELSE "Gradient Descent"

\* The branch computeTrajectory1D takes.
Branch1D(optimiserType) ==
    IF optimiserType = "Gradient Descent" THEN "Gradient Descent"
    ELSE IF optimiserType = "Newton" THEN "Newton"
    ELSE "throw"

\* The branch computeTrajectory2D takes.
Branch2D(optimiserType) ==
    IF optimiserType = "Gradient Descent" THEN "Gradient Descent"
    ELSE IF optimiserType = "Adam" THEN "Adam"
    ELSE IF optimiserType = "Newton" THEN "Newton"
    ELSE "throw"

\* A loop that runs one iteration too many.
LoopContinuesInclusive == i <= numSteps

\* The loop condition i < numSteps.
LoopContinues == i < numSteps

\* Moment accumulators that keep the values of the previous call.
AdamInitialMomentsKept == [mx |-> mx, my |-> my, vx |-> vx, vy |-> vy]

\* let mx = 0, my = 0, vx = 0, vy = 0
AdamInitialMoments == [mx |-> Zero, my |-> Zero, vx |-> Zero, vy |-> Zero]

\* No controller has been constructed.
NoController == [kind |-> "none"]

\* No call of computeTrajectory1D / computeTrajectory2D has been made.
NoCallYet ==
    /\ pc = "idle"
    /\ callee = "none"
    /\ analysis = [fn |-> Const(Zero)]
    /\ settings = [optimiserType |-> "none"]
    /\ numSteps = 0
    /\ xs = <<>> /\ ys = <<>> /\ zs = <<>>
    /\ i = 0
    /\ mx = Zero /\ my = Zero /\ vx = Zero /\ vy = Zero
    /\ result = NoResult
    /\ evals = NoEvals
    /\ nCalls = NoCalls
    /\ fn0 = NoCall
    /\ done = <<>>

Init == NoCallYet /\ controller = NoController

\* An error leaves the function: nothing is returned.
Abort(ev) ==
    /\ pc' = "thrown"
    /\ evals' = ev
    /\ UNCHANGED <<callee, analysis, settings, numSteps, xs, ys, zs, i,
                   mx, my, vx, vy, result, nCalls, fn0, done, controller>>

\* The assignments of the first lines of computeTrajectory1D /
\* computeTrajectory2D that do not depend on the dimension.
Enter(name, a, s, rf) ==
    /\ callee' = name
    /\ analysis' = a
    /\ settings' = s
    /\ numSteps' = Nullish(s.numSteps, DEFAULT_NUM_STEPS)
    /\ i' = 0
    /\ evals' = [NoEvals EXCEPT !.fn = Ev(rf)]
    /\ nCalls' = [NoCalls EXCEPT !.fn = 1]
    /\ fn0' = rf
    /\ result' = NoResult
    /\ UNCHANGED done

\* computeTrajectory1D up to the first loop test, for n = numSteps and the
\* value f of the objective at the initial point.
Start1D(s, n, f) ==
    /\ zs' = <<>>
    /\ UNCHANGED <<mx, my, vx, vy>>
    /\ xs' = Set(NewArray(n + 1), 0, s.initialX)
    /\ IF Threw(f)
       THEN pc' = "thrown" /\ ys' = NewArray(n + 1)
       ELSE /\ ys' = Set(NewArray(n + 1), 0, ensureValue(f, Zero))
            /\ pc' = IF Branch1D(s.optimiserType) = "throw" THEN "thrown"
                     ELSE Branch1D(s.optimiserType)

\* A call of computeTrajectory1D, up to the first loop test.
Begin1D(a, s) ==
    /\ pc = "idle"
    /\ \E rf \in Evaluate(a.fn, [x |-> s.initialX]) :
          /\ Enter("1D", a, s, rf)
          /\ Start1D(s, Nullish(s.numSteps, DEFAULT_NUM_STEPS), evaluateNumber(rf))

\* computeTrajectory2D up to the first loop test.
Start2D(s, n, f, moments) ==
    /\ mx' = moments.mx /\ my' = moments.my
    /\ vx' = moments.vx /\ vy' = moments.vy
    /\ xs' = Set(NewArray(n + 1), 0, s.initialX)
    /\ ys' = Set(NewArray(n + 1), 0, s.initialY)
    /\ IF Threw(f)
       THEN pc' = "thrown" /\ zs' = NewArray(n + 1)
       ELSE /\ zs' = Set(NewArray(n + 1), 0, ensureValue(f, Zero))
            /\ pc' = IF Branch2D(s.optimiserType) = "throw" THEN "thrown"
                     ELSE Branch2D(s.optimiserType)

\* A call of computeTrajectory2D, up to the first loop test.
Begin2D(a, s) ==
    /\ pc = "idle"
    /\ \E rf \in Evaluate(a.fn, [x |-> s.initialX, y |-> s.initialY]) :
          /\ Enter("2D", a, s, rf)
          /\ Start2D(s, Nullish(s.numSteps, DEFAULT_NUM_STEPS), evaluateNumber(rf),
                     IF Branch2D(s.optimiserType) = "Adam" /\ ~Threw(evaluateNumber(rf))
                     THEN AdamInitialMoments
                     ELSE [mx |-> mx, my |-> my, vx |-> vx, vy |-> vy])

\* The end of a loop iteration of computeTrajectory1D: xs[i + 1], ys[i + 1]
\* are assigned and i is incremented.
Store1D(x1, y1, ev, calls) ==
    /\ xs' = Set(xs, i + 1, x1)
    /\ ys' = Set(ys, i + 1, y1)
    /\ i' = i + 1
    /\ evals' = ev
    /\ nCalls' = calls
    /\ UNCHANGED <<pc, callee, analysis, settings, numSteps, zs,
                   mx, my, vx, vy, result, fn0, done, controller>>

\* The end of a loop iteration of computeTrajectory2D.
Store2D(x1, y1, z1, moments, ev, calls) ==
    /\ xs' = Set(xs, i + 1, x1)
    /\ ys' = Set(ys, i + 1, y1)
    /\ zs' = Set(zs, i + 1, z1)
    /\ i' = i + 1
    /\ mx' = moments.mx /\ my' = moments.my
    /\ vx' = moments.vx /\ vy' = moments.vy
    /\ evals' = ev
    /\ nCalls' = calls
    /\ UNCHANGED <<pc, callee, analysis, settings, numSteps, result, fn0, done, controller>>

Moments == [mx |-> mx, my |-> my, vx |-> vx, vy |-> vy]

\* A stalled step that goes back to the initial point.
Stall1DRestarts(ev, calls) == Store1D(settings.initialX, Get(ys, i), ev, calls)

\* A stalled step that still calls the value evaluator at the frozen position
\* and falls back to ys[i] when the result is invalid.
Stall1DRecomputes(ev, calls) ==
    \E rf \in Evaluate(analysis.fn, [x |-> Get(xs, i)]) :
        Store1D(Get(xs, i), ensureValue(evaluateNumber(rf), Get(ys, i)),
                [ev EXCEPT !.fn = Ev(rf)], [calls EXCEPT !.fn = @ + 1])

\* xs[i + 1] = xs[i]; ys[i + 1] = ys[i]; continue
Stall1D(ev, calls) == Store1D(Get(xs, i), Get(ys, i), ev, calls)

\* xs[i + 1] = xs[i]; ys[i + 1] = ys[i]; zs[i + 1] = zs[i]; continue
Stall2D(ev, calls) == Store2D(Get(xs, i), Get(ys, i), Get(zs, i), Moments, ev, calls)

\* A step that goes back to xs[i] when the objective at the new position is
\* invalid.
Finish1DRollsBack(x1, f, ev, calls) ==
    IF Threw(f.val) THEN Abort([ev EXCEPT !.fn = f])
    ELSE Store1D(IF IsFinite(f.val) THEN x1 ELSE Get(xs, i),
                 ensureValue(f.val, Get(ys, i)), [ev EXCEPT !.fn = f],
                 [calls EXCEPT !.fn = @ + 1])

\* ys[i + 1] = ensureValue(evaluateNumber(analysis.fn, { x: xs[i + 1] }), ys[i]),
\* given what the value evaluator produced (f).
Finish1D(x1, f, ev, calls) ==
    IF Threw(f.val) THEN Abort([ev EXCEPT !.fn = f])
    ELSE Store1D(x1, ensureValue(f.val, Get(ys, i)), [ev EXCEPT !.fn = f],
                 [calls EXCEPT !.fn = @ + 1])

\* The step moves to x1 and the objective is evaluated there.
Advance1D(x1, ev, calls) ==
    \E rf \in Evaluate(analysis.fn, [x |-> x1]) : Finish1D(x1, Ev(rf), ev, calls)

\* zs[i + 1] = ensureValue(evaluateNumber(analysis.fn, ...), zs[i])
Finish2D(x1, y1, moments, f, ev, calls) ==
    IF Threw(f.val) THEN Abort([ev EXCEPT !.fn = f])
    ELSE Store2D(x1, y1, ensureValue(f.val, Get(zs, i)), moments,
                 [ev EXCEPT !.fn = f], [calls EXCEPT !.fn = @ + 1])

\* The step moves to (x1, y1) and the objective is evaluated there.
Advance2D(x1, y1, moments, ev, calls) ==
    \E rf \in Evaluate(analysis.fn, [x |-> x1, y |-> y1]) :
        Finish2D(x1, y1, moments, Ev(rf), ev, calls)

\* A loop that does not test the gradient before it uses it.
InvalidGradient1DUnchecked(gradVal) == FALSE

\* !Number.isFinite(gradVal)
InvalidGradient1D(gradVal) == ~IsFinite(gradVal)

\* xs[i] - settings.learningRate * gradVal + momentumTerm, for the array arr
\* of one axis.
DescentUpdate(arr, gradVal) ==
    Add(Sub(Get(arr, i), Mul(settings.learningRate, gradVal)),
        IF i = 0 THEN Zero
        ELSE Mul(settings.momentum, Sub(Get(arr, i), Get(arr, i - 1))))

\* The body of the Gradient Descent loop of computeTrajectory1D, given what
\* the gradient evaluator produced.
GradientDescent1D(g) ==
    IF Threw(g.val) THEN Abort([NoEvals EXCEPT !.gradX = g])
    ELSE IF InvalidGradient1D(g.val)
    THEN Stall1D([NoEvals EXCEPT !.gradX = g], [nCalls EXCEPT !.gradient = @ + 1])
    ELSE Advance1D(DescentUpdate(xs, g.val), [NoEvals EXCEPT !.gradX = g],
                   [nCalls EXCEPT !.gradient = @ + 1])

\* One iteration of the Gradient Descent loop of computeTrajectory1D.
Step1DGradientDescent ==
    /\ callee = "1D" /\ pc = "Gradient Descent" /\ LoopContinues
    /\ \E rg \in Evaluate(analysis.gradient, [x |-> Get(xs, i)]) :
          GradientDescent1D(Ev(rg))

\* The stall test of the 1D Newton loop.
StallsNewton1D(gradVal, hessVal) ==
    ~IsFinite(gradVal) \/ ~IsFinite(hessVal) \/ Less(Abs(hessVal), EPSILON)

\* A Newton update that forgets to divide by the curvature.
NewtonUpdate1DNoCurvature(x, gradVal, hessVal) == Sub(x, gradVal)

\* xs[i] - gradVal / hessVal
NewtonUpdate1D(x, gradVal, hessVal) == Sub(x, Div(gradVal, hessVal))

\* The body of the Newton loop of computeTrajectory1D.
Newton1D(g, h, ev, calls) ==
    IF Threw(g.val) \/ Threw(h.val) THEN Abort(ev)
    ELSE IF StallsNewton1D(g.val, h.val) THEN Stall1D(ev, calls)
    ELSE Advance1D(NewtonUpdate1D(Get(xs, i), g.val, h.val), ev, calls)

\* One iteration of the Newton loop of computeTrajectory1D.
Step1DNewton ==
    /\ callee = "1D" /\ pc = "Newton" /\ LoopContinues
    /\ \E rg \in Evaluate(analysis.gradient, [x |-> Get(xs, i)]),
          rh \in Evaluate(analysis.hessian, [x |-> Get(xs, i)]) :
          Newton1D(Ev(rg), Ev(rh),
                   [NoEvals EXCEPT !.gradX = Ev(rg), !.hxx = Ev(rh)],
                   [nCalls EXCEPT !.gradient = @ + 1, !.hessian = @ + 1])

\* !Number.isFinite(gradX) || !Number.isFinite(gradY)
InvalidGradient2D(gradX, gradY) == ~IsFinite(gradX) \/ ~IsFinite(gradY)

\* The point (xs[i], ys[i]) the evaluators of a 2D step are called with.
Scope2D == [x |-> Get(xs, i), y |-> Get(ys, i)]

\* The body of the Gradient Descent loop of computeTrajectory2D.
GradientDescent2D(gx, gy, ev, calls) ==
    IF Threw(gx.val) \/ Threw(gy.val) THEN Abort(ev)
    ELSE IF InvalidGradient2D(gx.val, gy.val) THEN Stall2D(ev, calls)
    ELSE Advance2D(DescentUpdate(xs, gx.val), DescentUpdate(ys, gy.val),
                   Moments, ev, calls)

\* One iteration of the Gradient Descent loop of computeTrajectory2D.
Step2DGradientDescent ==
    /\ callee = "2D" /\ pc = "Gradient Descent" /\ LoopContinues
    /\ \E rgx \in Evaluate(analysis.gradient.x, Scope2D),
          rgy \in Evaluate(analysis.gradient.y, Scope2D) :
          GradientDescent2D(Ev(rgx), Ev(rgy),
                            [NoEvals EXCEPT !.gradX = Ev(rgx), !.gradY = Ev(rgy)],
                            [nCalls EXCEPT !.gradient = @ + 2])

\* mx = settings.beta1 * mx + (1 - settings.beta1) * gradX
FirstMoment(m, grad) ==
    Add(Mul(settings.beta1, m), Mul(Sub(One, settings.beta1), grad))

\* vx = settings.beta2 * vx + (1 - settings.beta2) * gradX * gradX
SecondMoment(v, grad) ==
    Add(Mul(settings.beta2, v), Mul(Mul(Sub(One, settings.beta2), grad), grad))

\* Math.abs(correction) > EPSILON ? correction : EPSILON
Denominator(correction) ==
    IF Greater(Abs(correction), EPSILON) THEN correction ELSE EPSILON

\* mxHat = mx / (...), with the correction 1 - beta ** (i + 1)
BiasCorrected(moment, beta) ==
    Div(moment, Denominator(Sub(One, Pow(beta, i + 1))))

\* xs[i] - settings.learningRate * mxHat / (Math.sqrt(vxHat) + ADAM_EPSILON)
AdamPosition(x, mHat, vHat) ==
    Sub(x, Div(Mul(settings.learningRate, mHat), Add(Sqrt(vHat), ADAM_EPSILON)))

\* The new position along one axis, from the new moments of that axis.
AdamAxis(x, m1, v1) ==
    AdamPosition(x, BiasCorrected(m1, settings.beta1), BiasCorrected(v1, settings.beta2))

\* The rest of the Adam loop body, given the new moments.
AdamMove(moments, ev, calls) ==
    Advance2D(AdamAxis(Get(xs, i), moments.mx, moments.vx),
              AdamAxis(Get(ys, i), moments.my, moments.vy),
              moments, ev, calls)

\* The body of the Adam loop of computeTrajectory2D.
Adam2D(gx, gy, ev, calls) ==
    IF Threw(gx.val) \/ Threw(gy.val) THEN Abort(ev)
    ELSE IF InvalidGradient2D(gx.val, gy.val) THEN Stall2D(ev, calls)
    ELSE AdamMove([mx |-> FirstMoment(mx, gx.val), my |-> FirstMoment(my, gy.val),
                   vx |-> SecondMoment(vx, gx.val), vy |-> SecondMoment(vy, gy.val)],
                  ev, calls)

\* One iteration of the Adam loop of computeTrajectory2D.
Step2DAdam ==
    /\ callee = "2D" /\ pc = "Adam" /\ LoopContinues
    /\ \E rgx \in Evaluate(analysis.gradient.x, Scope2D),
          rgy \in Evaluate(analysis.gradient.y, Scope2D) :
          Adam2D(Ev(rgx), Ev(rgy),
                 [NoEvals EXCEPT !.gradX = Ev(rgx), !.gradY = Ev(rgy)],
                 [nCalls EXCEPT !.gradient = @ + 2])

\* [gradX, gradY, hxx, hxy, hyx, hyy].some((v) => !Number.isFinite(v))
SomeInvalid(values) == \E j \in 1..Len(values) : ~IsFinite(values[j])

\* The Newton step with the inverse inv of the Hessian, for the values
\* v = <<gradX, gradY, hxx, hxy, hyx, hyy>>.
NewtonMove2D(v, inv, ev, calls) ==
    IF ~inv.ok THEN Stall2D(ev, calls)
    ELSE Advance2D(Sub(Get(xs, i), Add(Mul(inv.xx, v[1]), Mul(inv.xy, v[2]))),
                   Sub(Get(ys, i), Add(Mul(inv.yx, v[1]), Mul(inv.yy, v[2]))),
                   Moments, ev, calls)

\* The body of the Newton loop of computeTrajectory2D.
Newton2D(v, ev, calls) ==
    IF \E j \in 1..6 : Threw(v[j]) THEN Abort(ev)
    ELSE IF SomeInvalid(v) THEN Stall2D(ev, calls)
    ELSE NewtonMove2D(v, invert2x2(v[3], v[4], v[5], v[6]),
                      [ev EXCEPT !.inverse = Inversion(v[3], v[4], v[5], v[6])], calls)

\* One iteration of the Newton loop of computeTrajectory2D.
Step2DNewton ==
    /\ callee = "2D" /\ pc = "Newton" /\ LoopContinues
    /\ \E rgx \in Evaluate(analysis.gradient.x, Scope2D),
          rgy \in Evaluate(analysis.gradient.y, Scope2D),
          rxx \in Evaluate(analysis.hessian.xx, Scope2D),
          rxy \in Evaluate(analysis.hessian.xy, Scope2D),
          ryx \in Evaluate(analysis.hessian.yx, Scope2D),
          ryy \in Evaluate(analysis.hessian.yy, Scope2D) :
          Newton2D(<<evaluateNumber(rgx), evaluateNumber(rgy), evaluateNumber(rxx),
                     evaluateNumber(rxy), evaluateNumber(ryx), evaluateNumber(ryy)>>,
                   [NoEvals EXCEPT !.gradX = Ev(rgx), !.gradY = Ev(rgy),
                                   !.hxx = Ev(rxx), !.hxy = Ev(rxy),
                                   !.hyx = Ev(ryx), !.hyy = Ev(ryy)],
                   [nCalls EXCEPT !.gradient = @ + 2, !.hessian = @ + 4])

\* return { x: xs, y: ys } / return { x: xs, y: ys, z: zs }
Return ==
    /\ pc \in {"Gradient Descent", "Newton", "Adam"}
    /\ ~LoopContinues
    /\ pc' = "returned"
    /\ result' = [x |-> xs, y |-> ys, z |-> zs]
    /\ done' = Append(done, [callee |-> callee, analysis |-> analysis,
                              settings |-> settings,
                              result |-> [x |-> xs, y |-> ys, z |-> zs]])
    /\ UNCHANGED <<callee, analysis, settings, numSteps, xs, ys, zs, i,
                   mx, my, vx, vy, evals, nCalls, fn0, controller>>

(***************************************************************************)
(* The calls the environment makes.                                        *)
(***************************************************************************)
MaxSteps == 3
MaxCalls == 3

Two == Num(2, 0)
Half == Num(5, -1)
Tenth == Num(1, -1)
Huge == Num(1, MaxExp)

\* What an arbitrary evaluator may do on a call.
AnyOutcomes ==
    {JsNumber(One), JsNumber(NaN), JsNumber(PosInf), Throws,
     JsString("2"), JsString("abc"), JsUndefined}

NonFiniteOutcomes == {JsNumber(NaN), JsNumber(PosInf), JsNumber(NegInf)}

\* f(x) = x^2
Quadratic1D ==
    [fn |-> Expr("c*x^2", One), gradient |-> Expr("c*x", Two), hessian |-> Const(Two)]

\* An objective with gradient 3 x^2 and curvature 6 x, which vanishes at 0
Cubic1D ==
    [fn |-> Expr("c*x^2", One), gradient |-> Expr("c*x^2", Num(3, 0)),
     hessian |-> Expr("c*x", Num(6, 0))]

\* f(x) = sqrt(x), undefined over the reals for x < 0
Root1D ==
    [fn |-> Expr("sqrt(x)", One), gradient |-> Expr("c/sqrt(x)", Half),
     hessian |-> Expr("c/(x*sqrt(x))", Num(-25, -2))]

PureAnalyses1D ==
    {Quadratic1D, Cubic1D, Root1D,
     [Quadratic1D EXCEPT !.hessian = Const(Num(1, -10))],
     [Quadratic1D EXCEPT !.gradient = Const(Huge)],
     [Quadratic1D EXCEPT !.gradient = Const(NaN)],
     [Quadratic1D EXCEPT !.gradient = Const(NegInf)],
     [Quadratic1D EXCEPT !.fn = Const(NaN)],
     [Quadratic1D EXCEPT !.fn = OneOf({JsString("2")})],
     [Quadratic1D EXCEPT !.gradient = OneOf({JsBoolean(TRUE)})],
     [fn |-> OneOf({Throws}), gradient |-> OneOf({Throws}), hessian |-> OneOf({Throws})]}

ArbitraryAnalyses1D ==
    {[Quadratic1D EXCEPT !.fn = OneOf(AnyOutcomes)],
     [Quadratic1D EXCEPT !.gradient = OneOf(AnyOutcomes)],
     [Quadratic1D EXCEPT !.hessian = OneOf(AnyOutcomes)],
     [Quadratic1D EXCEPT !.gradient = OneOf(NonFiniteOutcomes)],
     [Quadratic1D EXCEPT !.fn = OneOf({JsNumber(One), JsNumber(Two)}),
                         !.gradient = OneOf({JsNumber(NaN), JsNumber(One)})]}

OptimiserTypes == {"Gradient Descent", "Newton", "Adam", "Foo"}

StepCounts == {<<n>> : n \in 0..MaxSteps}

Settings1D(counts) ==
    [optimiserType : OptimiserTypes, initialX : {One, Zero},
     learningRate : {Tenth, Num(10, 0)}, momentum : {Zero, Half}, numSteps : counts]

Calls1D ==
    [analysis : PureAnalyses1D, settings : Settings1D(StepCounts \cup {<<>>})]
    \cup [analysis : ArbitraryAnalyses1D,
          settings : [optimiserType : OptimiserTypes, initialX : {One},
                      learningRate : {Tenth}, momentum : {Half},
                      numSteps : StepCounts]]

\* f(x, y) = c (x^2 + y^2) for c = s / 2
Quadratic2D(s) ==
    [fn |-> Expr("c*(x^2+y^2)", Mul(Half, s)),
     gradient |-> [x |-> Expr("c*x", s), y |-> Expr("c*y", s)],
     hessian |-> [xx |-> Const(s), xy |-> Const(Zero),
                  yx |-> Const(Zero), yy |-> Const(s)]]

\* f(x, y) = (x + y)^2 / 2, whose Hessian is singular everywhere
Singular2D ==
    [fn |-> Expr("c*(x+y)^2", Half),
     gradient |-> [x |-> Expr("c*(x+y)", One), y |-> Expr("c*(x+y)", One)],
     hessian |-> [xx |-> Const(One), xy |-> Const(One),
                  yx |-> Const(One), yy |-> Const(One)]]

PureAnalyses2D ==
    {Quadratic2D(Two), Quadratic2D(Num(1, -5)), Quadratic2D(Num(1, 200)), Singular2D,
     [Quadratic2D(Two) EXCEPT !.gradient.x = Const(Huge)],
     [Quadratic2D(Two) EXCEPT !.gradient.x = Const(NaN)],
     [Quadratic2D(Two) EXCEPT !.gradient.y = Const(PosInf)],
     [Quadratic2D(Two) EXCEPT !.fn = Const(PosInf)]}

ArbitraryAnalyses2D ==
    {[Quadratic2D(Two) EXCEPT !.fn = OneOf(AnyOutcomes)],
     [Quadratic2D(Two) EXCEPT !.gradient.x = OneOf(AnyOutcomes)],
     [Quadratic2D(Two) EXCEPT !.gradient.y = OneOf(AnyOutcomes)],
     [Quadratic2D(Two) EXCEPT !.hessian.xx = OneOf(AnyOutcomes)],
     [Quadratic2D(Two) EXCEPT !.hessian.xy = OneOf(AnyOutcomes)],
     [Quadratic2D(Two) EXCEPT !.hessian.yx = OneOf(AnyOutcomes)],
     [Quadratic2D(Two) EXCEPT !.hessian.yy = OneOf(AnyOutcomes)],
     [Quadratic2D(Two) EXCEPT !.gradient.y = OneOf(NonFiniteOutcomes)]}

Calls2D ==
    [analysis : PureAnalyses2D,
     settings : [optimiserType : OptimiserTypes, initialX : {One}, initialY : {One, Zero},
                 learningRate : {Tenth, Num(10, 0)}, momentum : {Zero, Half},
                 beta1 : {Num(9, -1)}, beta2 : {Num(999, -3), Zero},
                 numSteps : StepCounts \cup {<<>>}]]
    \cup [analysis : ArbitraryAnalyses2D,
          settings : [optimiserType : OptimiserTypes, initialX : {One}, initialY : {One},
                      learningRate : {Tenth}, momentum : {Half},
                      beta1 : {Num(9, -1)}, beta2 : {Num(999, -3)},
                      numSteps : StepCounts]]

Call1D ==
    \E c \in Calls1D : Begin1D(c.analysis, c.settings) /\ UNCHANGED controller

Call2D ==
    \E c \in Calls2D : Begin2D(c.analysis, c.settings) /\ UNCHANGED controller

Next ==
    \/ Call1D
    \/ Call2D
    \/ Step1DGradientDescent
    \/ Step1DNewton
    \/ Step2DGradientDescent
    \/ Step2DAdam
    \/ Step2DNewton
    \/ Return

Spec == Init /\ [][Next]_vars

(***************************************************************************)
(* Repeated calls: after a call has returned the caller calls again.  The  *)
(* locals of the previous call are gone; the model keeps their last values *)
(* until the next call assigns them.                                       *)
(***************************************************************************)
RepeatSettings2D(type) ==
    [optimiserType |-> type, initialX |-> One, initialY |-> Half,
     learningRate |-> Tenth, momentum |-> Half,
     beta1 |-> Num(9, -1), beta2 |-> Num(999, -3), numSteps |-> <<2>>]

RepeatSettings1D(type) ==
    [optimiserType |-> type, initialX |-> One,
     learningRate |-> Tenth, momentum |-> Half, numSteps |-> <<2>>]

RepeatCalls1D ==
    {[analysis |-> Cubic1D, settings |-> RepeatSettings1D(type)] :
        type \in {"Gradient Descent", "Newton"}}

RepeatCalls2D ==
    {[analysis |-> a, settings |-> RepeatSettings2D(type)] :
        a \in {Quadratic2D(Two)}, type \in {"Gradient Descent", "Adam", "Newton"}}
    \cup {[analysis |-> Singular2D, settings |-> RepeatSettings2D("Adam")]}

RepeatCall1D ==
    \E c \in RepeatCalls1D : Begin1D(c.analysis, c.settings) /\ UNCHANGED controller

RepeatCall2D ==
    \E c \in RepeatCalls2D : Begin2D(c.analysis, c.settings) /\ UNCHANGED controller

\* The caller is ready to call again.
NextCall ==
    /\ pc = "returned"
    /\ Len(done) < MaxCalls
    /\ pc' = "idle"
    /\ UNCHANGED <<callee, analysis, settings, numSteps, xs, ys, zs, i,
                   mx, my, vx, vy, result, evals, nCalls, fn0, done, controller>>

NextRepeat ==
    \/ RepeatCall1D
    \/ RepeatCall2D
    \/ Step1DGradientDescent
    \/ Step1DNewton
    \/ Step2DGradientDescent
    \/ Step2DAdam
    \/ Step2DNewton
    \/ Return
    \/ NextCall

SpecRepeat == Init /\ [][NextRepeat]_vars

(***************************************************************************)
(* invert2x2 on its own: calls with arbitrary finite entries.              *)
(***************************************************************************)
MatrixEntries ==
    {Zero, One, Two, Num(3, 0), Num(-1, 0), Num(1, -5), Huge}

\* One call invert2x2(a, b, c, d).
CallInvert2x2 ==
    \E a \in MatrixEntries, b \in MatrixEntries, c \in MatrixEntries, d \in MatrixEntries :
        /\ ~evals.inverse.called
        /\ evals' = [NoEvals EXCEPT !.inverse = Inversion(a, b, c, d)]
        /\ UNCHANGED <<pc, callee, analysis, settings, numSteps, xs, ys, zs, i,
                       mx, my, vx, vy, result, nCalls, fn0, done, controller>>

NextInvert == CallInvert2x2

SpecInvert == Init /\ [][NextInvert]_vars

(***************************************************************************)
(* The Univariate and Bivariate controllers.  The behaviour follows one    *)
(* controller object; JavaScript runs one handler at a time, so every      *)
(* handler is one action.  A handler sees a call of computeTrajectory1D /  *)
(* computeTrajectory2D only through its outcome, which the actions above   *)
(* establish (C1, C3, C4): the call throws exactly when Branch1D /         *)
(* Branch2D is "throw", and otherwise returns arrays of numSteps + 1       *)
(* elements computed from its two arguments.                               *)
(***************************************************************************)
DigitChars == <<"0", "1", "2", "3", "4", "5", "6", "7", "8", "9">>

\* String(n) for a non-negative integer n, as the sequence of its characters.
RECURSIVE DecimalString(_)
DecimalString(n) ==
    IF n < 10 THEN <<DigitChars[n + 1]>>
    ELSE Append(DecimalString(n \div 10), DigitChars[(n % 10) + 1])

DigitValue(ch) == CHOOSE d \in 0..9 : DigitChars[d + 1] = ch

\* Number(str) for a string of decimal digits.
RECURSIVE DecimalNumber(_)
DecimalNumber(str) ==
    IF str = <<>> THEN 0
    ELSE 10 * DecimalNumber(SubSeq(str, 1, Len(str) - 1)) + DigitValue(str[Len(str)])

\* Math.min(a, b)
Min(a, b) == IF a <= b THEN a ELSE b

\* The object after the constructor; null is the empty sequence, an object
\* the sequence that holds it.  event and fresh record the history of the
\* handlers: the kind of the last handler and whether it assigned
\* this.trajectory.
Constructed(kind) ==
    [kind |-> kind,
     optimiserType |-> "Gradient Descent",
     initialX |-> Half, initialY |-> Half,
     learningRate |-> Tenth, momentum |-> Zero,
     beta1 |-> Num(9, -1), beta2 |-> Num(999, -3),
     numSteps |-> DEFAULT_NUM_STEPS,
     currentStep |-> 0,
     analysis |-> <<>>,
     trajectory |-> <<>>,
     functionInput |-> "", timeoutId |-> FALSE,
     error |-> "",
     slider |-> [value |-> <<"0">>, max |-> <<>>],
     sliderValue |-> <<"0">>,
     stepButtonDisabled |-> FALSE,
     rendered |-> <<>>,
     event |-> "none", fresh |-> FALSE]

\* The settings object recomputeTrajectory passes to computeTrajectory.
SettingsOf(c) ==
    IF c.kind = "Univariate"
    THEN [optimiserType |-> c.optimiserType, initialX |-> c.initialX,
          learningRate |-> c.learningRate, momentum |-> c.momentum,
          numSteps |-> <<c.numSteps>>]
    ELSE [optimiserType |-> c.optimiserType, initialX |-> c.initialX,
          initialY |-> c.initialY, learningRate |-> c.learningRate,
          momentum |-> c.momentum, beta1 |-> c.beta1, beta2 |-> c.beta2,
          numSteps |-> <<c.numSteps>>]

\* The outcome of computeTrajectory1D(a, s) (kind "Univariate") or
\* computeTrajectory2D(a, s): no object when the call throws, else the
\* returned object, described by the length of its arrays and the arguments
\* it was computed from.
computeTrajectory(kind, a, s) ==
    IF (IF kind = "Univariate" THEN Branch1D(s.optimiserType)
        ELSE Branch2D(s.optimiserType)) = "throw"
    THEN <<>>
    ELSE <<[length |-> Nullish(s.numSteps, DEFAULT_NUM_STEPS) + 1,
            analysis |-> a, settings |-> s]>>

\* updateStepButton()
updateStepButton(c) == [c EXCEPT !.stepButtonDisabled = (c.currentStep >= c.numSteps)]

\* updateStepDisplay()
updateStepDisplay(c) ==
    updateStepButton([c EXCEPT !.sliderValue = DecimalString(c.currentStep)])

\* renderPlot(): rendered is the stepIdx the plot was drawn with.
renderPlot(c) ==
    IF c.analysis = <<>> \/ c.trajectory = <<>> THEN c
    ELSE [c EXCEPT !.rendered = <<Min(c.currentStep, c.trajectory[1].length - 1)>>]

\* The variables of a call of computeTrajectory.
call == <<pc, callee, analysis, settings, numSteps, xs, ys, zs, i,
          mx, my, vx, vy, result, evals, nCalls, fn0, done>>

\* A handler starts: this, with the history of the handler reset.
Handling(name) == [controller EXCEPT !.event = name, !.fresh = FALSE]

\* Events are bound by init().
Bound == controller.kind # "none" /\ controller.event # "none"

\* A step button that never checks the step count.
CanStepAlways(c) == TRUE

\* this.currentStep < this.numSteps
CanStep(c) == c.currentStep < c.numSteps

\* The click handler of the step button.
StepClick ==
    /\ Bound
    /\ controller' =
          updateStepButton(
              IF CanStep(controller)
              THEN renderPlot(updateStepDisplay(
                       [Handling("view") EXCEPT
                           !.currentStep = @ + 1,
                           !.slider.value = DecimalString(controller.currentStep + 1)]))
              ELSE Handling("view"))
    /\ UNCHANGED call

\* The input handler of the slider, after the user moved it to v.
SliderInput ==
    /\ Bound
    /\ \E v \in 0..controller.numSteps :
          controller' =
              renderPlot(updateStepDisplay(
                  [Handling("view") EXCEPT
                      !.slider.value = DecimalString(v),
                      !.currentStep = DecimalNumber(DecimalString(v))]))
    /\ UNCHANGED call

\* The rest of recomputeTrajectory() after the call threw or returned.
Recomputed(c, outcome) ==
    IF outcome = <<>> THEN [c EXCEPT !.error = "Unsupported optimiser type"]
    ELSE renderPlot(updateStepButton(updateStepDisplay(
             [c EXCEPT !.trajectory = outcome,
                       !.currentStep = 0,
                       !.slider = [max |-> DecimalString(c.numSteps), value |-> <<"0">>],
                       !.fresh = TRUE])))

\* A recomputeTrajectory() that returns at once.
recomputeTrajectoryNever(c) == c

\* recomputeTrajectory(), for this = c.
recomputeTrajectory(c) ==
    IF c.analysis = <<>> THEN c
    ELSE Recomputed(c, computeTrajectory(c.kind, c.analysis[1], SettingsOf(c)))

\* What the user can type into the function input of a controller.
FunctionTexts(kind) ==
    IF kind = "Univariate" THEN {" ", "x^2", "sqrt(x)", "x^"}
    ELSE {" ", "x^2 + y^2", "(x + y)^2 / 2", "x^"}

\* functionInput.value.trim()
Trim(str) == IF str = " " THEN "" ELSE str

\* analyzeFunction1D / analyzeFunction2D: the analysis, with the text it was
\* parsed from, or no analysis when math.js cannot parse the text and the
\* function throws.
analyzeFunction(kind, functionStr) ==
    IF kind = "Univariate"
    THEN (CASE functionStr = "x^2" ->
                  <<[functionStr |-> functionStr, evaluators |-> Quadratic1D]>>
            [] functionStr = "sqrt(x)" ->
                  <<[functionStr |-> functionStr, evaluators |-> Root1D]>>
            [] OTHER -> <<>>)
    ELSE (CASE functionStr = "x^2 + y^2" ->
                  <<[functionStr |-> functionStr, evaluators |-> Quadratic2D(Two)]>>
            [] functionStr = "(x + y)^2 / 2" ->
                  <<[functionStr |-> functionStr, evaluators |-> Singular2D]>>
            [] OTHER -> <<>>)

\* handleFunctionChange(), for this = c.
handleFunctionChange(c) ==
    IF Trim(c.functionInput) = ""
    THEN [c EXCEPT !.error = "Function cannot be empty."]
    ELSE IF analyzeFunction(c.kind, Trim(c.functionInput)) = <<>>
    THEN [c EXCEPT !.error = "Unable to parse function"]
    ELSE recomputeTrajectory(
             [c EXCEPT !.analysis = analyzeFunction(c.kind, Trim(c.functionInput)),
                       !.error = ""])

\* The values of the number inputs.
InitialTexts == {"", "1"}
RateTexts == {"1"}

\* The values of the optimiser radio inputs.
OptimiserValues == {"Gradient Descent", "Newton", "Adam"}

\* Number(input.value)
InputNumber(text) == ToNumber(JsString(text))

\* init(): bindEvents() and refreshFromInputs().
InitController ==
    /\ controller.kind # "none" /\ controller.event = "none"
    /\ \E x \in InitialTexts, r \in RateTexts, text \in FunctionTexts(controller.kind) :
          controller' = handleFunctionChange(
              [Handling("function") EXCEPT
                  !.initialX = InputNumber(x),
                  !.initialY = IF controller.kind = "Bivariate" THEN InputNumber(x) ELSE @,
                  !.learningRate = InputNumber(r),
                  !.momentum = InputNumber(r),
                  !.beta1 = IF controller.kind = "Bivariate" THEN InputNumber(r) ELSE @,
                  !.beta2 = IF controller.kind = "Bivariate" THEN InputNumber(r) ELSE @,
                  !.functionInput = text])
    /\ UNCHANGED call

\* The debounced input listener of the function input: the user has typed
\* text and the timer is (re)started.
FunctionInput ==
    /\ Bound
    /\ \E text \in FunctionTexts(controller.kind) :
          controller' = [Handling("input") EXCEPT !.functionInput = text, !.timeoutId = TRUE]
    /\ UNCHANGED call

\* The debounce timer fires.
FunctionTimeout ==
    /\ Bound /\ controller.timeoutId
    /\ controller' = handleFunctionChange([Handling("function") EXCEPT !.timeoutId = FALSE])
    /\ UNCHANGED call

\* The change listener of an optimiser radio input.
OptimiserChange ==
    /\ Bound
    /\ \E value \in OptimiserValues, checked \in BOOLEAN :
          controller' =
              IF checked
              THEN recomputeTrajectory([Handling("settings") EXCEPT !.optimiserType = value])
              ELSE Handling("unchecked")
    /\ UNCHANGED call

InitialXChange ==
    /\ Bound
    /\ \E v \in InitialTexts :
          controller' =
              recomputeTrajectory([Handling("settings") EXCEPT !.initialX = InputNumber(v)])
    /\ UNCHANGED call

InitialYChange ==
    /\ Bound /\ controller.kind = "Bivariate"
    /\ \E v \in InitialTexts :
          controller' =
              recomputeTrajectory([Handling("settings") EXCEPT !.initialY = InputNumber(v)])
    /\ UNCHANGED call

LearningRateChange ==
    /\ Bound
    /\ \E v \in RateTexts :
          controller' =
              recomputeTrajectory([Handling("settings") EXCEPT !.learningRate = InputNumber(v)])
    /\ UNCHANGED call

MomentumChange ==
    /\ Bound
    /\ \E v \in RateTexts :
          controller' =
              recomputeTrajectory([Handling("settings") EXCEPT !.momentum = InputNumber(v)])
    /\ UNCHANGED call

Beta1Change ==
    /\ Bound /\ controller.kind = "Bivariate"
    /\ \E v \in RateTexts :
          controller' =
              recomputeTrajectory([Handling("settings") EXCEPT !.beta1 = InputNumber(v)])
    /\ UNCHANGED call

Beta2Change ==
    /\ Bound /\ controller.kind = "Bivariate"
    /\ \E v \in RateTexts :
          controller' =
              recomputeTrajectory([Handling("settings") EXCEPT !.beta2 = InputNumber(v)])
    /\ UNCHANGED call

InitControllers ==
    /\ NoCallYet
    /\ controller \in {Constructed("Univariate"), Constructed("Bivariate")}

NextControllers ==
    \/ InitController
    \/ FunctionInput
    \/ FunctionTimeout
    \/ OptimiserChange
    \/ InitialXChange
    \/ InitialYChange
    \/ LearningRateChange
    \/ MomentumChange
    \/ Beta1Change
    \/ Beta2Change
    \/ StepClick
    \/ SliderInput

SpecControllers == InitControllers /\ [][NextControllers]_vars

(***************************************************************************)
(* Properties.                                                             *)
(***************************************************************************)
Supported ==
    \/ callee = "1D" /\ settings.optimiserType \in {"Gradient Descent", "Newton"}
    \/ callee = "2D" /\ settings.optimiserType \in {"Gradient Descent", "Adam", "Newton"}

Unsupported ==
    \/ callee = "1D" /\ settings.optimiserType \notin {"Gradient Descent", "Newton"}
    \/ callee = "2D" /\ settings.optimiserType \notin {"Gradient Descent", "Adam", "Newton"}

\* The number of steps the caller asked for.
RequestedSteps == IF settings.numSteps = <<>> THEN 20 ELSE settings.numSteps[1]

\* The objective array of the returned trajectory.
Objective == IF callee = "1D" THEN result.y ELSE result.z

\* C1: every array of a returned trajectory (the coordinates and the
\* objective) has exactly numSteps + 1 elements, where numSteps is 20 when
\* the settings do not give it, for every algorithm and whatever the
\* evaluators returned.
C1_LengthIsNumStepsPlusOne ==
    pc = "returned" =>
        /\ Len(result.x) = RequestedSteps + 1
        /\ Len(result.y) = RequestedSteps + 1
        /\ callee = "2D" => Len(result.z) = RequestedSteps + 1

C1_Witness ==
    /\ pc = "returned" /\ callee = "2D" /\ settings.optimiserType = "Adam"
    /\ settings.numSteps = <<>>
    /\ Len(result.x) = 21 /\ Len(result.y) = 21 /\ Len(result.z) = 21

\* C2 as stated: index 0 of a returned trajectory is the initial point, and
\* the objective at index 0 is the number the value evaluator returned at
\* the initial point, also when that number is not finite.
C2_InitialObjectiveIsEvaluatorResult ==
    pc = "returned" =>
        /\ result.x[1] = settings.initialX
        /\ callee = "2D" => result.y[1] = settings.initialY
        /\ fn0.t = "number" => Objective[1] = fn0.n

\* C2 amended: index 0 of a returned trajectory is the initial point; the
\* objective at index 0 is the value evaluator's result at the initial
\* point, converted to a number, when that is a finite number, and 0 when
\* the evaluation is invalid (it threw, or gave NaN, an infinity or a value
\* that does not convert to a finite number).
C2_InitialEntry ==
    pc = "returned" =>
        /\ result.x[1] = settings.initialX
        /\ callee = "2D" => result.y[1] = settings.initialY
        /\ Objective[1] = IF fn0.t # "throw" /\ IsFinite(ToNumber(fn0))
                          THEN ToNumber(fn0) ELSE Zero

C2_Witness ==
    /\ pc = "returned" /\ fn0 = JsNumber(NaN) /\ Objective[1] = Zero
    /\ result.x[1] = settings.initialX /\ numSteps >= 1

\* C3: a call with an optimiserType the function does not support is thrown
\* out of before any step runs: no gradient or Hessian evaluator has been
\* called, the loop counter is still 0, and nothing is returned.
C3_UnsupportedTypeFailsFast ==
    (callee # "none" /\ Unsupported) =>
        /\ pc = "thrown"
        /\ result = NoResult
        /\ done = <<>>
        /\ i = 0
        /\ nCalls.gradient = 0 /\ nCalls.hessian = 0

C3_Witness ==
    /\ callee = "1D" /\ settings.optimiserType = "Adam" /\ pc = "thrown"
    /\ RequestedSteps >= 1 /\ result = NoResult

\* C4: with a supported optimiserType no call is ever thrown out of, whatever
\* the evaluators throw or return, and a call returns only after all
\* numSteps iterations, with every entry of the trajectory assigned.
C4_NeverAborts ==
    (callee # "none" /\ Supported) =>
        /\ pc # "thrown"
        /\ i <= RequestedSteps
        /\ pc = "returned" => (i = RequestedSteps /\ Len(result.x) = i + 1)

C4_Witness ==
    /\ pc = "returned" /\ Supported /\ i = MaxSteps
    /\ evals.gradX.raw = Throws /\ fn0 = Throws

\* The seven slots of evals.
Slots == {evals.fn, evals.gradX, evals.gradY, evals.hxx, evals.hxy, evals.hyx, evals.hyy}

\* C5 as stated: evaluateNumber returns the sentinel when the evaluator
\* throws, returns a value that is not of type number, or returns NaN or an
\* infinity, and the evaluator's number otherwise.
C5_NonNumericIsInvalid ==
    \A slot \in Slots :
        slot.raw # NoCall =>
            IF slot.raw.t = "number" /\ IsFinite(slot.raw.n)
            THEN slot.val = slot.raw.n
            ELSE slot.val = NaN

\* C5 amended: evaluateNumber returns the sentinel, and never propagates,
\* when the evaluator throws or when its value, converted with Number() if
\* it is not of type number, is NaN or infinite; a finite number is returned
\* unchanged, and a value of another type that converts to a finite number
\* (the string "2") is returned as that number.
C5_SafeEvaluator ==
    \A slot \in Slots :
        slot.raw # NoCall =>
            /\ ~Threw(slot.val)
            /\ slot.raw.t = "throw" => slot.val = NaN
            /\ (slot.raw.t = "number" /\ IsFinite(slot.raw.n)) => slot.val = slot.raw.n
            /\ (slot.raw.t = "number" /\ ~IsFinite(slot.raw.n)) => slot.val = NaN
            /\ slot.raw = JsString("2") => slot.val = Num(2, 0)
            /\ slot.raw = JsString("abc") => slot.val = NaN
            /\ slot.raw = JsBoolean(TRUE) => slot.val = Num(1, 0)
            /\ slot.raw \in {JsUndefined, JsObject} => slot.val = NaN

C5_Witness ==
    /\ evals.gradX.raw = JsString("2") /\ evals.gradX.val = Num(2, 0)
    /\ evals.fn.raw # NoCall /\ i >= 1

\* The gradient evaluator (in 2D: one of the two) can only return NaN or an
\* infinity.
GradientNeverFinite ==
    \/ callee = "1D" /\ analysis.gradient.op = "oneof"
                     /\ analysis.gradient.outs \subseteq NonFiniteOutcomes
    \/ callee = "2D" /\ \/ /\ analysis.gradient.x.op = "oneof"
                           /\ analysis.gradient.x.outs \subseteq NonFiniteOutcomes
                        \/ /\ analysis.gradient.y.op = "oneof"
                           /\ analysis.gradient.y.outs \subseteq NonFiniteOutcomes

\* C6: when the gradient evaluator returns a non-finite value at every
\* point, the returned trajectory is flat: every position is the initial
\* point and every objective value is the objective value at index 0.
C6_NonFiniteGradientGivesFlatTrajectory ==
    (pc = "returned" /\ GradientNeverFinite) =>
        \A j \in 1..Len(result.x) :
            /\ result.x[j] = settings.initialX
            /\ callee = "2D" => result.y[j] = settings.initialY
            /\ Objective[j] = Objective[1]

C6_Witness ==
    /\ pc = "returned" /\ GradientNeverFinite /\ Len(result.x) = MaxSteps + 1
    /\ callee = "1D" /\ settings.optimiserType = "Gradient Descent"
    /\ evals.gradX.raw = JsNumber(NegInf)
    /\ result.x[MaxSteps + 1] = settings.initialX

\* C7 as stated: from a finite initial point no coordinate of the trajectory
\* is ever non-finite, because every step whose arithmetic fails is frozen.
C7_NoNonFiniteCoordinate ==
    (pc \in {"Gradient Descent", "Newton", "Adam", "returned"}
        /\ IsFinite(settings.initialX)
        /\ (callee = "2D" => IsFinite(settings.initialY))) =>
        \A j \in 1..(i + 1) :
            IsFinite(xs[j]) /\ (callee = "2D" => IsFinite(ys[j]))

\* Two calls with the same function, evaluators and settings.
SameCall(c, d) ==
    c.callee = d.callee /\ c.analysis = d.analysis /\ c.settings = d.settings

\* C8: two calls with identical settings and identical (pure) evaluators
\* return identical coordinate and objective sequences, whatever calls were
\* made in between.
C8_Deterministic ==
    \A c \in 1..Len(done), d \in 1..Len(done) :
        SameCall(done[c], done[d]) => done[c].result = done[d].result

C8_Witness ==
    /\ Len(done) = 3
    /\ SameCall(done[1], done[3]) /\ ~SameCall(done[1], done[2])
    /\ done[1].settings.optimiserType = "Adam"
    /\ done[2].settings.optimiserType = "Adam"
    /\ done[1].result.x[3] # done[1].result.x[1]

\* C9: Newton's method on x^2 from 1, and on x^2 + y^2 from (1, 1), is at
\* the minimum 0 (respectively (0, 0)) after one step and stays there.
C9_NewtonConvergesInOneStep ==
    /\ (callee = "1D" /\ analysis = Quadratic1D /\ settings.optimiserType = "Newton"
            /\ settings.initialX = One) =>
         \A j \in 1..i : Get(xs, j) = Zero
    /\ (callee = "2D" /\ analysis = Quadratic2D(Two) /\ settings.optimiserType = "Newton"
            /\ settings.initialX = One /\ settings.initialY = One) =>
         \A j \in 1..i : Get(xs, j) = Zero /\ Get(ys, j) = Zero

C9_Witness ==
    /\ pc = "returned" /\ callee = "2D" /\ analysis = Quadratic2D(Two)
    /\ settings.optimiserType = "Newton"
    /\ settings.initialX = One /\ settings.initialY = One
    /\ settings.numSteps = <<>> /\ i = 20
    /\ result.x[2] = Zero /\ result.y[2] = Zero /\ result.x[21] = Zero

\* The determinant of the Hessian the last step evaluated.
LastDeterminant ==
    Sub(Mul(evals.hxx.val, evals.hyy.val), Mul(evals.hxy.val, evals.hyx.val))

\* The last step was a 2D Newton step whose gradient and Hessian were valid
\* and whose Hessian was singular.
LastStepSingular ==
    /\ callee = "2D" /\ settings.optimiserType = "Newton" /\ i >= 1
    /\ evals.hxx.raw # NoCall
    /\ \A slot \in {evals.gradX, evals.gradY, evals.hxx, evals.hxy, evals.hyx, evals.hyy} :
          IsFinite(slot.val)
    /\ (IsZero(LastDeterminant) \/ Less(Abs(LastDeterminant), EPSILON))

\* C10: a 2D Newton step whose Hessian is singular (its determinant is zero
\* or below 1e-9 in magnitude) freezes: the position and the objective of
\* step i + 1 are those of step i, and no error is raised.
C10_SingularHessianFreezes ==
    LastStepSingular =>
        /\ pc # "thrown"
        /\ Get(xs, i) = Get(xs, i - 1)
        /\ Get(ys, i) = Get(ys, i - 1)
        /\ Get(zs, i) = Get(zs, i - 1)

C10_Witness ==
    /\ LastStepSingular /\ ~IsZero(LastDeterminant)
    /\ ~IsZero(evals.gradX.val)
    /\ Get(xs, i) = Get(xs, i - 1) /\ i >= 2

\* The last step was a Gradient Descent step with momentum 0 whose gradient
\* was valid.
LastStepPlainDescent ==
    /\ pc \in {"Gradient Descent", "returned"}
    /\ settings.optimiserType = "Gradient Descent"
    /\ settings.momentum = Zero /\ i >= 1
    /\ evals.gradX.raw # NoCall /\ IsFinite(evals.gradX.val)
    /\ callee = "2D" => IsFinite(evals.gradY.val)

\* The steepest-descent iterate x - learningRate * g of a reference
\* iteration that has no momentum term.
SteepestDescent(x, g) == Sub(x, Mul(settings.learningRate, g))

\* C11 as stated: with momentum 0 every Gradient Descent step with a valid
\* gradient is the steepest-descent step x[i+1] = x[i] - learningRate * g(x[i]),
\* in 1D and on each axis in 2D.
C11_ZeroMomentumIsSteepestDescent ==
    LastStepPlainDescent =>
        /\ Get(xs, i) = SteepestDescent(Get(xs, i - 1), evals.gradX.val)
        /\ callee = "2D" =>
              Get(ys, i) = SteepestDescent(Get(ys, i - 1), evals.gradY.val)

\* The objective array while the loop runs.
Values == IF callee = "1D" THEN ys ELSE zs

\* The last step called the value evaluator: it was not a stalled step.
LastStepAdvanced ==
    /\ pc \in {"Gradient Descent", "Newton", "Adam", "returned"}
    /\ i >= 1 /\ evals.fn.raw # NoCall

\* The momentum term of the last Gradient Descent step along the axis arr.
LastMomentumTerm(arr) ==
    IF i = 1 THEN Zero
    ELSE Mul(settings.momentum, Sub(Get(arr, i - 1), Get(arr, i - 2)))

\* The bias-corrected moment the last Adam step used.
LastBiasCorrected(moment, beta) ==
    Div(moment, IF Greater(Abs(Sub(One, Pow(beta, i))), EPSILON)
                THEN Sub(One, Pow(beta, i)) ELSE EPSILON)

\* The inverse of the Hessian the last step evaluated.
LastInverse == invert2x2(evals.hxx.val, evals.hxy.val, evals.hyx.val, evals.hyy.val)

\* The position along the axis arr the last step's update rule advances to,
\* for the gradient g, moments m and v and inverse Hessian row <<r1, r2>> of
\* that axis.
AdvancedPosition(arr, g, m, v, r1, r2) ==
    IF settings.optimiserType = "Gradient Descent"
    THEN Add(Sub(Get(arr, i - 1), Mul(settings.learningRate, g)), LastMomentumTerm(arr))
    ELSE IF settings.optimiserType = "Adam"
    THEN Sub(Get(arr, i - 1),
             Div(Mul(settings.learningRate, LastBiasCorrected(m, settings.beta1)),
                 Add(Sqrt(LastBiasCorrected(v, settings.beta2)), ADAM_EPSILON)))
    ELSE IF callee = "1D"
    THEN Sub(Get(arr, i - 1), Div(g, evals.hxx.val))
    ELSE Sub(Get(arr, i - 1),
             Add(Mul(r1, evals.gradX.val), Mul(r2, evals.gradY.val)))

\* The point the last step moved to.
NewPoint ==
    IF callee = "1D" THEN [x |-> Get(xs, i)] ELSE [x |-> Get(xs, i), y |-> Get(ys, i)]

\* C13: after a step that is not stalled, the position at i + 1 is the
\* position the update rule advances to, the value evaluator was called at
\* that position, and the objective entry at i + 1 is its result when that
\* is valid and the entry at i when it is invalid (the position is kept).
C13_ObjectiveAtNewPosition ==
    LastStepAdvanced =>
        /\ Get(xs, i) = AdvancedPosition(xs, evals.gradX.val, mx, vx,
                                         LastInverse.xx, LastInverse.xy)
        /\ callee = "2D" =>
              Get(ys, i) = AdvancedPosition(ys, evals.gradY.val, my, vy,
                                            LastInverse.yx, LastInverse.yy)
        /\ evals.fn.raw \in Evaluate(analysis.fn, NewPoint)
        /\ IF IsFinite(evals.fn.val)
           THEN Get(Values, i) = evals.fn.val
           ELSE Get(Values, i) = Get(Values, i - 1)

C13_Witness ==
    /\ LastStepAdvanced /\ i >= 2
    /\ evals.fn.raw = JsNumber(NaN)
    /\ Get(xs, i) # Get(xs, i - 1)
    /\ Get(Values, i) = Get(Values, i - 1)

\* The last step evaluated a gradient that is invalid.
LastStepInvalidGradient ==
    /\ pc \in {"Gradient Descent", "Newton", "Adam", "returned"}
    /\ i >= 1 /\ evals.gradX.raw # NoCall
    /\ \/ ~IsFinite(evals.gradX.val)
       \/ callee = "2D" /\ ~IsFinite(evals.gradY.val)

\* The last step left the position where it was.
LastStepFrozen ==
    /\ Get(xs, i) = Get(xs, i - 1)
    /\ callee = "2D" => Get(ys, i) = Get(ys, i - 1)

\* C14 as stated: a step whose gradient is invalid freezes the position and
\* calls the value evaluator once more at the frozen position, keeping the
\* previous objective value only when that call gives an invalid value.
C14_InvalidGradientRecomputesObjective ==
    LastStepInvalidGradient =>
        /\ LastStepFrozen
        /\ evals.fn.raw # NoCall
        /\ Get(Values, i) = ensureValue(evals.fn.val, Get(Values, i - 1))

\* C14 amended: a step whose gradient is invalid freezes the position and
\* copies the previous objective value forward without calling the value
\* evaluator; when every step of a call has an invalid gradient the value
\* evaluator is called exactly once, for index 0.
C14_InvalidGradientCopiesObjective ==
    LastStepInvalidGradient =>
        /\ LastStepFrozen
        /\ evals.fn.raw = NoCall
        /\ Get(Values, i) = Get(Values, i - 1)
        /\ GradientNeverFinite => nCalls.fn = 1

C14_Witness ==
    /\ LastStepInvalidGradient /\ LastStepFrozen /\ i >= 2
    /\ callee = "1D" /\ analysis.fn = OneOf({JsNumber(One), JsNumber(Two)})
    /\ evals.fn.raw = NoCall /\ nCalls.fn = 1
    /\ fn0 = JsNumber(Two) /\ Get(ys, i) = Two

\* The determinant a d - b c of the matrix of the last call of invert2x2.
InvertedDeterminant ==
    Sub(Mul(evals.inverse.a, evals.inverse.d), Mul(evals.inverse.b, evals.inverse.c))

\* invert2x2 reported singular exactly when the determinant is not finite or
\* below 1e-9 in magnitude.
SingularExactlyWhenDegenerate ==
    ~evals.inverse.out.ok <=>
        (~IsFinite(InvertedDeterminant) \/ Less(Abs(InvertedDeterminant), Num(1, -9)))

\* Row <<p, q>> of the matrix times column <<r, s>> of the result.
RowByColumn(p, q, r, s) == Add(Mul(p, r), Mul(q, s))

\* The matrix of the last call times the result is the identity matrix.
ProductIsIdentity ==
    /\ RowByColumn(evals.inverse.a, evals.inverse.b,
                   evals.inverse.out.xx, evals.inverse.out.yx) = One
    /\ RowByColumn(evals.inverse.a, evals.inverse.b,
                   evals.inverse.out.xy, evals.inverse.out.yy) = Zero
    /\ RowByColumn(evals.inverse.c, evals.inverse.d,
                   evals.inverse.out.xx, evals.inverse.out.yx) = Zero
    /\ RowByColumn(evals.inverse.c, evals.inverse.d,
                   evals.inverse.out.xy, evals.inverse.out.yy) = One

IsPure(compiled) == compiled.op # "oneof" \/ Cardinality(compiled.outs) = 1

\* Every evaluator of the analysis is pure.
PureEvaluators ==
    /\ callee # "none"
    /\ IsPure(analysis.fn)
    /\ IF callee = "1D"
       THEN IsPure(analysis.gradient) /\ IsPure(analysis.hessian)
       ELSE /\ IsPure(analysis.gradient.x) /\ IsPure(analysis.gradient.y)
            /\ IsPure(analysis.hessian.xx) /\ IsPure(analysis.hessian.xy)
            /\ IsPure(analysis.hessian.yx) /\ IsPure(analysis.hessian.yy)

\* The last step stalled: it did not call the value evaluator.
LastStepStalled ==
    /\ pc \in {"Gradient Descent", "Newton", "Adam", "returned"}
    /\ i >= 1 /\ evals.fn.raw = NoCall

\* C16: with pure evaluators the step after a stalled step stalls as well
\* and stores the same position and objective value, leaving Adam's moments
\* as they are; so a trajectory is constant from its first stalled step on.
C16_StallsAreAbsorbing ==
    [][(PureEvaluators /\ LastStepStalled /\ i' = i + 1) =>
          /\ LastStepStalled'
          /\ Get(xs', i') = Get(xs, i)
          /\ Get(ys', i') = Get(ys, i)
          /\ callee = "2D" => Get(zs', i') = Get(zs, i)
          /\ UNCHANGED <<mx, my, vx, vy>>]_vars

C16_Witness ==
    /\ pc = "returned" /\ PureEvaluators /\ LastStepStalled /\ i = 3
    /\ analysis = Root1D /\ settings.optimiserType = "Gradient Descent"
    /\ Get(xs, 1) # Get(xs, 0)
    /\ Get(xs, 2) = Get(xs, 1) /\ Get(xs, 3) = Get(xs, 1)
    /\ Get(ys, 3) = Get(ys, 1)

(***************************************************************************)
(* The controllers (SpecControllers).                                      *)
(***************************************************************************)
\* The last handler was the one of a change of the function text or of a
\* setting (a radio input that is checked, or a number input).
ChangeHandled == controller.event \in {"function", "settings"}

\* The trajectory computeTrajectory returns for the analysis and the
\* settings the controller holds now.
TrajectoryOfNow ==
    computeTrajectory(controller.kind, controller.analysis[1], SettingsOf(controller))

\* The last handler assigned this.trajectory, and what it assigned is the
\* trajectory of the function and the settings of the controller.
TrajectoryIsFresh ==
    /\ controller.fresh
    /\ controller.analysis # <<>>
    /\ controller.trajectory # <<>>
    /\ controller.trajectory = TrajectoryOfNow

\* The text of the function input is the text of the analysis.
TextIsAnalysed ==
    /\ controller.analysis # <<>>
    /\ controller.analysis[1].functionStr = Trim(controller.functionInput)

\* The optimiser type is one computeTrajectory of the controller knows.
TypeIsSupported ==
    (IF controller.kind = "Univariate" THEN Branch1D(controller.optimiserType)
     ELSE Branch2D(controller.optimiserType)) # "throw"

CouldRecompute ==
    /\ controller.analysis # <<>>
    /\ TypeIsSupported
    /\ controller.event = "function" => TextIsAnalysed

C17_CurrentStepInRange ==
    Bound =>
        /\ controller.currentStep \in 0..controller.numSteps
        /\ controller.fresh => controller.currentStep = 0
        /\ controller.stepButtonDisabled = (controller.currentStep = controller.numSteps)
        /\ controller.trajectory # <<>> =>
              /\ controller.rendered = <<controller.currentStep>>
              /\ controller.rendered[1] \in 0..(controller.trajectory[1].length - 1)

\* C17 happens: the bivariate controller was stepped to the last index of its
\* trajectory, where the step button is disabled.
C17_Witness ==
    /\ controller.kind = "Bivariate"
    /\ controller.event = "view"
    /\ controller.trajectory # <<>>
    /\ controller.currentStep = controller.numSteps
    /\ controller.rendered = <<controller.trajectory[1].length - 1>>
    /\ controller.stepButtonDisabled

====
